---------------------------- MODULE Spec2Model ----------------------------
(***************************************************************************)
(* A model of scripts/analysis/analyze-schema.py: the two regex extractors  *)
(* (parse_create_table, parse_foreign_keys) and the single top-to-bottom    *)
(* run of analyze_terrastories_schema over a small file system.             *)
(*                                                                          *)
(* A Python str is a sequence of one-character strings, so that the regex   *)
(* scans, str.strip, str.split and the substring tests are computed         *)
(* character by character, as the interpreter computes them.                *)
(***************************************************************************)
EXTENDS Integers, Sequences, FiniteSets, TLC

VARIABLES
    schema_file,      \* dump-analysis/schema.sql: NoFile, or its text
    output_dir,       \* migration-analysis: "absent" or "dir"
    output_file,      \* migration-analysis/schema_analysis.txt: NoFile, or its lines
    pc,               \* position of the run of analyze_terrastories_schema
    schema_content,   \* local of analyze_terrastories_schema (line 66)
    tables,           \* local of analyze_terrastories_schema (line 71)
    foreign_keys,     \* local of analyze_terrastories_schema (line 105)
    console,          \* what print() has written so far, one entry per call
    calls             \* direct calls of the two extractors: <<function, text, result>>

vars == <<schema_file, output_dir, output_file, pc, schema_content, tables,
          foreign_keys, console, calls>>

(***************************************************************************)
(* Bounds of the model.                                                     *)
(***************************************************************************)
MaxBody == 3
MaxTables == 2
MaxCols == 2
MaxFk == 2
MaxCalls == 3

\* a path of the file system: no file there, or a file and what it holds
NoFile == [exists |-> FALSE, content |-> <<>>]
File(content) == [exists |-> TRUE, content |-> content]

(***************************************************************************)
(* Characters and the str methods the script uses.                          *)
(***************************************************************************)
DQ == "\""
NL == "\n"

Lower == {"a","b","c","d","e","f","g","h","i","j","k","l","m",
          "n","o","p","q","r","s","t","u","v","w","x","y","z"}
Upper == {"A","B","C","D","E","F","G","H","I","J","K","L","M",
          "N","O","P","Q","R","S","T","U","V","W","X","Y","Z"}
Digit == {"0","1","2","3","4","5","6","7","8","9"}

\* \w of the re module, on the characters the model's texts are made of
IsWord(c) == c \in Lower \cup Upper \cup Digit \cup {"_"}

\* the characters str.strip() and str.split() take for white space
IsSpace(c) == c \in {" ", "\n", "\t", "\r"}

Drop(s, n) == SubSeq(s, n + 1, Len(s))

\* lit occurs in s at position i (1-based)
LitAt(s, i, lit) ==
    /\ i + Len(lit) - 1 <= Len(s)
    /\ \A k \in 1..Len(lit) : s[i + k - 1] = lit[k]

\* sub in s
Contains(s, sub) == \E i \in 1..(Len(s) - Len(sub) + 1) : LitAt(s, i, sub)

\* s.startswith(p)
StartsWith(s, p) == LitAt(s, 1, p)

RECURSIVE LStrip(_)
LStrip(s) == IF s # <<>> /\ IsSpace(Head(s)) THEN LStrip(Tail(s)) ELSE s

RECURSIVE RStrip(_)
RStrip(s) ==
    IF s # <<>> /\ IsSpace(s[Len(s)]) THEN RStrip(SubSeq(s, 1, Len(s) - 1)) ELSE s

\* s.strip()
Strip(s) == RStrip(LStrip(s))

\* s.rstrip(',')
RECURSIVE RStripComma(_)
RStripComma(s) ==
    IF s # <<>> /\ s[Len(s)] = "," THEN RStripComma(SubSeq(s, 1, Len(s) - 1)) ELSE s

Min(S) == CHOOSE x \in S : \A y \in S : x <= y

\* the least position >= i at which lit occurs in s, 0 when there is none
Find(s, i, lit) ==
    LET S == {j \in i..(Len(s) - Len(lit) + 1) : LitAt(s, j, lit)}
    IN  IF S = {} THEN 0 ELSE Min(S)

\* s.split(sep) for a one-character sep: always at least one piece
RECURSIVE Split(_, _)
Split(s, sep) ==
    LET j == Find(s, 1, <<sep>>)
    IN  IF j = 0 THEN <<s>>
        ELSE <<SubSeq(s, 1, j - 1)>> \o Split(Drop(s, j), sep)

\* the end (exclusive) of the longest run of characters satisfying \w from i
WordEnd(s, i) == Min({j \in i..(Len(s) + 1) : j > Len(s) \/ ~IsWord(s[j])})

\* the end (exclusive) of the longest run of characters other than ")" from i
NotParenEnd(s, i) == Min({j \in i..(Len(s) + 1) : j > Len(s) \/ s[j] = ")"})

\* re.sub(r'"([^"]*)"', r'\1', line): each quoted run loses its two quotes,
\* left to right; a quote with no closing quote after it stays
RECURSIVE RemoveQuotes(_)
RemoveQuotes(line) ==
    LET i == Find(line, 1, <<DQ>>)
        j == Find(line, i + 1, <<DQ>>)
    IN  IF i = 0 \/ j = 0 THEN line
        ELSE SubSeq(line, 1, i - 1) \o SubSeq(line, i + 1, j - 1)
                 \o RemoveQuotes(Drop(line, j))

(***************************************************************************)
(* parse_create_table (lines 11-33).                                        *)
(***************************************************************************)
\* the literal parts of table_pattern (line 16)
TablePrefix == <<"C","R","E","A","T","E"," ","T","A","B","L","E"," ",
                 "\"","p","u","b","l","i","c","\"",".","\"">>
TableOpen == <<"\""," ","(">>
TableClose == <<")",";">>

\* one attempt of table_pattern at position i: the prefix, \w+ (greedy; the
\* quote that must follow is no \w, so only the longest run can match), the
\* opening, then .*? under DOTALL up to the first ");".
MatchTableAt(s, i) ==
    LET n0 == i + Len(TablePrefix)
        n1 == WordEnd(s, n0)
        b0 == n1 + Len(TableOpen)
        b1 == Find(s, b0, TableClose)
    IN  IF LitAt(s, i, TablePrefix) /\ n1 > n0 /\ LitAt(s, n1, TableOpen) /\ b1 # 0
        THEN [ok |-> TRUE, name |-> SubSeq(s, n0, n1 - 1),
              body |-> SubSeq(s, b0, b1 - 1), end |-> b1 + Len(TableClose)]
        ELSE [ok |-> FALSE, name |-> <<>>, body |-> <<>>, end |-> i + 1]

\* line 24 with the columns split at commas instead of line ends
SplitLinesOnComma(columns_text) == Split(Strip(columns_text), ",")

\* columns_text.strip().split('\n') (line 24)
SplitLines(columns_text) == Split(Strip(columns_text), NL)

\* the loop body of lines 25-29 over the lines of one table
RECURSIVE Columns(_)
Columns(lines) ==
    IF lines = <<>> THEN <<>>
    ELSE LET line == RStripComma(Strip(Head(lines)))
         IN  IF line # <<>> /\ ~StartsWith(line, <<"-","-">>)
             THEN <<Strip(RemoveQuotes(line))>> \o Columns(Tail(lines))
             ELSE Columns(Tail(lines))

\* tables[table_name] = columns (line 31) on a dict, which keeps a key's
\* first position when the key is assigned again
SetItem(d, key, value) ==
    IF \E k \in 1..Len(d) : d[k].name = key
    THEN [k \in 1..Len(d) |->
             IF d[k].name = key THEN [name |-> key, columns |-> value] ELSE d[k]]
    ELSE Append(d, [name |-> key, columns |-> value])

\* re.finditer (line 18): successive non-overlapping matches, left to right;
\* a match can only start where the pattern's literal prefix occurs
RECURSIVE ScanTables(_, _, _)
ScanTables(s, i, acc) ==
    LET c == Find(s, i, TablePrefix)
        m == MatchTableAt(s, c)
    IN  IF c = 0 THEN acc
        ELSE IF m.ok
        THEN ScanTables(s, m.end, SetItem(acc, m.name, Columns(SplitLines(m.body))))
        ELSE ScanTables(s, c + 1, acc)

\* tables = {} (line 13)
NewTables == <<>>

parse_create_table(text) == ScanTables(text, 1, NewTables)

\* t in tables, tables[t], tables.keys()
HasKey(d, key) == \E k \in 1..Len(d) : d[k].name = key
GetItem(d, key) == d[CHOOSE k \in 1..Len(d) : d[k].name = key].columns
Keys(d) == [k \in 1..Len(d) |-> d[k].name]

(***************************************************************************)
(* parse_foreign_keys (lines 35-55).                                        *)
(***************************************************************************)
\* the literal parts of fk_pattern (line 37)
FkAlter == <<"A","L","T","E","R"," ","T","A","B","L","E"," ">>
FkOnly == <<"O","N","L","Y"," ">>
FkPublic == <<"p","u","b","l","i","c",".">>
FkAdd == <<" ","A","D","D"," ","C","O","N","S","T","R","A","I","N","T"," ">>
FkForeign == <<" ","F","O","R","E","I","G","N"," ","K","E","Y"," ","(">>
FkReferences == <<")"," ","R","E","F","E","R","E","N","C","E","S"," ",
                  "p","u","b","l","i","c",".">>

\* one attempt of fk_pattern at position i. Every repetition is followed by
\* a character it cannot itself match, so only its longest run can match.
MatchFkAt(s, i) ==
    LET a0 == i + Len(FkAlter)
        a1 == IF LitAt(s, a0, FkOnly) THEN a0 + Len(FkOnly) ELSE a0
        t0 == a1 + Len(FkPublic)
        t1 == WordEnd(s, t0)
        c0 == t1 + Len(FkAdd)
        c1 == WordEnd(s, c0)
        s0 == c1 + Len(FkForeign)
        s1 == NotParenEnd(s, s0)
        r0 == s1 + Len(FkReferences)
        r1 == WordEnd(s, r0)
        g0 == r1 + 1
        g1 == NotParenEnd(s, g0)
    IN  IF /\ LitAt(s, i, FkAlter)
           /\ LitAt(s, a1, FkPublic)
           /\ t1 > t0 /\ LitAt(s, t1, FkAdd)
           /\ c1 > c0 /\ LitAt(s, c1, FkForeign)
           /\ s1 > s0 /\ LitAt(s, s1, FkReferences)
           /\ r1 > r0 /\ LitAt(s, r1, <<"(">>)
           /\ g1 > g0 /\ LitAt(s, g1, <<")">>)
        THEN [ok |-> TRUE, end |-> g1 + 1,
              fk |-> [source_table |-> SubSeq(s, t0, t1 - 1),
                      source_column |-> SubSeq(s, s0, s1 - 1),
                      target_table |-> SubSeq(s, r0, r1 - 1),
                      target_column |-> SubSeq(s, g0, g1 - 1),
                      constraint_name |-> SubSeq(s, c0, c1 - 1)]]
        ELSE [ok |-> FALSE, end |-> i + 1, fk |-> <<>>]

\* lines 40-53 with each match put in front of the list instead of appended
RECURSIVE ScanFksReversed(_, _, _)
ScanFksReversed(s, i, acc) ==
    LET c == Find(s, i, FkAlter)
        m == MatchFkAt(s, c)
    IN  IF c = 0 THEN acc
        ELSE IF m.ok THEN ScanFksReversed(s, m.end, <<m.fk>> \o acc)
        ELSE ScanFksReversed(s, c + 1, acc)

\* re.finditer (line 40) and foreign_keys.append (line 47); a match can only
\* start where the pattern's literal prefix occurs
RECURSIVE ScanFks(_, _, _)
ScanFks(s, i, acc) ==
    LET c == Find(s, i, FkAlter)
        m == MatchFkAt(s, c)
    IN  IF c = 0 THEN acc
        ELSE IF m.ok THEN ScanFks(s, m.end, Append(acc, m.fk))
        ELSE ScanFks(s, c + 1, acc)

\* line 39 with the list kept from one call to the next
StaleForeignKeys ==
    LET S == {k \in 1..Len(calls) : calls[k].fn = "parse_foreign_keys"}
    IN  IF S = {} THEN <<>> ELSE calls[CHOOSE k \in S : \A j \in S : j <= k].result

\* foreign_keys = [] (line 39)
NewForeignKeys == <<>>

parse_foreign_keys(text) == ScanFks(text, 1, NewForeignKeys)

(***************************************************************************)
(* The reporter of analyze_terrastories_schema (lines 57-170).              *)
(***************************************************************************)
\* 'communities'
communities ==
    <<"c","o","m","m","u","n","i","t","i","e","s">>

\* 'users'
users ==
    <<"u","s","e","r","s">>

\* 'stories'
stories ==
    <<"s","t","o","r","i","e","s">>

\* 'places'
places ==
    <<"p","l","a","c","e","s">>

\* 'speakers'
speakers ==
    <<"s","p","e","a","k","e","r","s">>

\* 'themes'
themes ==
    <<"t","h","e","m","e","s">>

\* 'curriculums'
curriculums ==
    <<"c","u","r","r","i","c","u","l","u","m","s">>

\* core_tables (line 74)
core_tables == <<communities, users, stories, places, speakers, themes, curriculums>>

\* 'active_storage'
ActiveStoragePrefix ==
    <<"a","c","t","i","v","e","_","s","t","o","r","a","g","e">>

\* 'bigint'
Bigint ==
    <<"b","i","g","i","n","t">>

\* 'integer'
Integer ==
    <<"i","n","t","e","g","e","r">>

\* 'character varying'
CharacterVarying ==
    <<"c","h","a","r","a","c","t","e","r"," ","v","a","r","y","i","n",
      "g">>

\* 'text'
Text ==
    <<"t","e","x","t">>

\* 'timestamp'
Timestamp ==
    <<"t","i","m","e","s","t","a","m","p">>

\* 'boolean'
Boolean ==
    <<"b","o","o","l","e","a","n">>

\* 'NOT NULL'
NotNull ==
    <<"N","O","T"," ","N","U","L","L">>

Range(f) == {f[k] : k \in DOMAIN f}

\* [x for x in xs if Keep(x)]
Filter(xs, Keep(_)) == SelectSeq(xs, Keep)

\* the concatenation of a sequence of sequences
RECURSIVE Flatten(_)
Flatten(xss) == IF xss = <<>> THEN <<>> ELSE Head(xss) \o Flatten(Tail(xss))

\* the concatenation of Lines(x) for x in xs, in order
FlatMap(xs, Lines(_)) == Flatten([k \in 1..Len(xs) |-> Lines(xs[k])])

\* xs[:n]
Take(xs, n) == SubSeq(xs, 1, IF Len(xs) < n THEN Len(xs) ELSE n)

\* line 87 with "or" for "and"
IsJunctionEither(t) ==
    \/ Contains(t, <<"_">>)
    \/ \E k \in DOMAIN core_tables : Contains(t, core_tables[k])

\* line 87 with the core names matched without their final letter
IsJunctionStem(t) ==
    /\ Contains(t, <<"_">>)
    /\ \E k \in DOMAIN core_tables :
           Contains(t, SubSeq(core_tables[k], 1, Len(core_tables[k]) - 1))

\* the condition of the comprehension of line 87
IsJunction(t) ==
    /\ Contains(t, <<"_">>)
    /\ \E k \in DOMAIN core_tables : Contains(t, core_tables[k])

\* the condition of the comprehension of line 97
IsActiveStorage(t) == StartsWith(t, ActiveStoragePrefix)

\* junction_tables (line 87), active_storage_tables (line 97)
junction_tables(d) == Filter(Keys(d), IsJunction)
active_storage_tables(d) == Filter(Keys(d), IsActiveStorage)

\* the core tables that are keys of d, in the order of core_tables
\* (for table in core_tables: if table in tables, lines 78-79, 118-119, 160-161)
PresentCore(d) == Filter(core_tables, LAMBDA t : HasKey(d, t))

\* lines 125-134 without the boolean branch
ts_type_no_boolean(col) ==
    IF Contains(col, Bigint) \/ Contains(col, Integer) THEN "number"
    ELSE IF Contains(col, CharacterVarying) \/ Contains(col, Text) THEN "string"
    ELSE IF Contains(col, Timestamp) THEN "Date"
    ELSE "unknown"

\* the chain of substring tests of lines 125-134
ts_type(col) ==
    IF Contains(col, Bigint) \/ Contains(col, Integer) THEN "number"
    ELSE IF Contains(col, CharacterVarying) \/ Contains(col, Text) THEN "string"
    ELSE IF Contains(col, Timestamp) THEN "Date"
    ELSE IF Contains(col, Boolean) THEN "boolean"
    ELSE "unknown"

\* col.split() is empty, so that col.split()[0] raises IndexError (line 136)
NoField(col) == LStrip(col) = <<>>

\* col.split()[0] (line 136): the first run of characters that are not white space
col_name(col) ==
    LET c == LStrip(col)
    IN  SubSeq(c, 1, Min({j \in 1..(Len(c) + 1) : j > Len(c) \/ IsSpace(c[j])}) - 1)

\* nullable (line 137)
nullable(col) == IF ~Contains(col, NotNull) THEN "?" ELSE ""

\* lines 80-84: what the core section prints for one table
CoreLines(d, t) ==
    LET cols == GetItem(d, t)
    IN  <<<<"core_table", t>>>>
        \o [k \in 1..Len(Take(cols, 10)) |-> <<"core_col", cols[k]>>]
        \o (IF Len(cols) > 10 THEN <<<<"more", Len(cols) - 10>>>> ELSE <<>>)

\* lines 92-94: what the relationship section prints for one table
JunctionLines(d, t) ==
    LET cols == GetItem(d, t)
    IN  <<<<"junction", t>>>> \o [k \in 1..Len(cols) |-> <<"junction_col", cols[k]>>]

\* line 110 and line 168: one foreign key, as printed and as written
FkLine(fk) ==
    <<"fk", fk.source_table, fk.source_column, fk.target_table, fk.target_column>>

\* lines 123-138 over the columns of one table: the fields printed, and
\* whether the loop ended by raising IndexError
RECURSIVE FieldLines(_)
FieldLines(cols) ==
    IF cols = <<>> THEN [out |-> <<>>, raised |-> FALSE]
    ELSE IF NoField(Head(cols)) THEN [out |-> <<>>, raised |-> TRUE]
    ELSE LET col == Head(cols)
             r == FieldLines(Tail(cols))
         IN  [out |-> <<<<"field", col, col_name(col), nullable(col), ts_type(col)>>>>
                          \o r.out,
              raised |-> r.raised]

\* lines 118-141 over the core tables present: everything printed, and
\* whether the loop ended by raising IndexError
RECURSIVE TypeLines(_, _)
TypeLines(d, ts) ==
    IF ts = <<>> THEN [out |-> <<>>, raised |-> FALSE]
    ELSE LET t == Head(ts)
             f == FieldLines(Take(GetItem(d, t), 5))
             r == TypeLines(d, Tail(ts))
         IN  IF f.raised
             THEN [out |-> <<<<"entity", t>>, <<"interface", t>>>> \o f.out,
                   raised |-> TRUE]
             ELSE [out |-> <<<<"entity", t>>, <<"interface", t>>>> \o f.out
                              \o <<<<"other_fields">>, <<"close">>>> \o r.out,
                   raised |-> r.raised]

\* lines 156-168: the lines written to schema_analysis.txt
FileLines(d, fks, date) ==
    <<<<"title">>, <<"generated", date>>, <<"core_tables">>>>
    \o FlatMap(PresentCore(d),
               LAMBDA t : <<<<"table", t>>>>
                          \o [k \in 1..Len(GetItem(d, t)) |-> <<"col", GetItem(d, t)[k]>>])
    \o <<<<"foreign_keys">>>>
    \o [k \in 1..Len(fks) |-> FkLine(fks[k])]

\* what os.popen('date').read().strip() may return (line 157)
Dates == {"date1", "date2"}

\* lines 61-63 with the output directory made before the input is looked for
NotFoundMkdir ==
    /\ pc = "start"
    /\ ~schema_file.exists
    /\ output_dir' = "dir"
    /\ console' = Append(console, <<"not_found">>)
    /\ pc' = "returned"
    /\ UNCHANGED <<schema_file, output_file, schema_content, tables, foreign_keys, calls>>

\* if not schema_file.exists(): print, return (lines 61-63)
NotFound ==
    /\ pc = "start"
    /\ ~schema_file.exists
    /\ console' = Append(console, <<"not_found">>)
    /\ pc' = "returned"
    /\ UNCHANGED <<schema_file, output_dir, output_file, schema_content, tables,
                   foreign_keys, calls>>

\* lines 65-68
ReadSchema ==
    /\ pc = "start"
    /\ schema_file.exists
    /\ schema_content' = schema_file.content
    /\ console' = Append(console, <<"analyzing">>)
    /\ pc' = "loaded"
    /\ UNCHANGED <<schema_file, output_dir, output_file, tables, foreign_keys, calls>>

\* line 71
ParseTables ==
    /\ pc = "loaded"
    /\ tables' = parse_create_table(schema_content)
    /\ pc' = "parsed"
    /\ UNCHANGED <<schema_file, output_dir, output_file, schema_content,
                   foreign_keys, console, calls>>

\* lines 76-84
PrintCore ==
    /\ pc = "parsed"
    /\ console' = console \o <<<<"core_header">>, <<"rule">>>>
                          \o FlatMap(PresentCore(tables), LAMBDA t : CoreLines(tables, t))
    /\ pc' = "core"
    /\ UNCHANGED <<schema_file, output_dir, output_file, schema_content, tables,
                   foreign_keys, calls>>

\* lines 87-94
PrintJunction ==
    /\ pc = "core"
    /\ console' = console \o <<<<"junction_header">>, <<"rule">>>>
                          \o FlatMap(junction_tables(tables),
                                     LAMBDA t : JunctionLines(tables, t))
    /\ pc' = "junction"
    /\ UNCHANGED <<schema_file, output_dir, output_file, schema_content, tables,
                   foreign_keys, calls>>

\* lines 97-102
PrintMedia ==
    /\ pc = "junction"
    /\ console' = console \o <<<<"media_header">>, <<"rule">>>>
                          \o FlatMap(active_storage_tables(tables),
                                     LAMBDA t : <<<<"media", t>>>>)
    /\ pc' = "media"
    /\ UNCHANGED <<schema_file, output_dir, output_file, schema_content, tables,
                   foreign_keys, calls>>

\* lines 105-110
PrintForeignKeys ==
    /\ pc = "media"
    /\ foreign_keys' = parse_foreign_keys(schema_content)
    /\ console' = console \o <<<<"fk_header">>, <<"rule">>>>
                          \o [k \in 1..Len(foreign_keys') |-> FkLine(foreign_keys'[k])]
    /\ pc' = "fks"
    /\ UNCHANGED <<schema_file, output_dir, output_file, schema_content, tables, calls>>

\* lines 113-141; an IndexError of line 136 is caught nowhere and ends the run
PrintTypes ==
    /\ pc = "fks"
    /\ LET r == TypeLines(tables, PresentCore(tables))
       IN  /\ console' = console
                  \o <<<<"insights_header">>, <<"rule">>, <<"types_header">>>> \o r.out
           /\ pc' = IF r.raised THEN "raised" ELSE "types"
    /\ UNCHANGED <<schema_file, output_dir, output_file, schema_content, tables,
                   foreign_keys, calls>>

\* lines 143-149
PrintPriority ==
    /\ pc = "types"
    /\ console' = console \o <<<<"priority_header">>, <<"rule">>, <<"priority", 1>>,
                               <<"priority", 2>>, <<"priority", 3>>, <<"priority", 4>>,
                               <<"priority", 5>>>>
    /\ pc' = "priority"
    /\ UNCHANGED <<schema_file, output_dir, output_file, schema_content, tables,
                   foreign_keys, calls>>

\* lines 152-170: mkdir(exist_ok=True), open(..., 'w') and the writes
SaveAnalysis ==
    /\ pc = "priority"
    /\ output_dir' = "dir"
    /\ \E date \in Dates : output_file' = File(FileLines(tables, foreign_keys, date))
    /\ console' = Append(console, <<"complete">>)
    /\ pc' = "returned"
    /\ UNCHANGED <<schema_file, schema_content, tables, foreign_keys, calls>>

(***************************************************************************)
(* The texts dump-analysis/schema.sql may hold.                             *)
(***************************************************************************)
\* 'story_speakers'
story_speakers ==
    <<"s","t","o","r","y","_","s","p","e","a","k","e","r","s">>

\* 'active_storage_blobs'
active_storage_blobs ==
    <<"a","c","t","i","v","e","_","s","t","o","r","a","g","e","_","b",
      "l","o","b","s">>

\* 'user_settings'
user_settings ==
    <<"u","s","e","r","_","s","e","t","t","i","n","g","s">>

\* 'users_settings'
users_settings ==
    <<"u","s","e","r","s","_","s","e","t","t","i","n","g","s">>

\* 'flipper_gates'
flipper_gates ==
    <<"f","l","i","p","p","e","r","_","g","a","t","e","s">>

\* 'my_active_storage'
my_active_storage ==
    <<"m","y","_","a","c","t","i","v","e","_","s","t","o","r","a","g",
      "e">>

TableNames == {users, stories, story_speakers, active_storage_blobs, user_settings,
               users_settings, flipper_gates, my_active_storage}

\* '"id" bigint NOT NULL'
ColId ==
    <<"\"","i","d","\""," ","b","i","g","i","n","t"," ","N","O","T"," ",
      "N","U","L","L">>

\* '"flag" boolean'
ColFlag ==
    <<"\"","f","l","a","g","\""," ","b","o","o","l","e","a","n">>

\* '"context" boolean NOT NULL'
ColContext ==
    <<"\"","c","o","n","t","e","x","t","\""," ","b","o","o","l","e","a",
      "n"," ","N","O","T"," ","N","U","L","L">>

\* '"geom" geometry'
ColGeom ==
    <<"\"","g","e","o","m","\""," ","g","e","o","m","e","t","r","y">>

\* '"name" character varying'
ColName ==
    <<"\"","n","a","m","e","\""," ","c","h","a","r","a","c","t","e","r",
      " ","v","a","r","y","i","n","g">>

\* '"created_at" timestamp without time zone'
ColCreatedAt ==
    <<"\"","c","r","e","a","t","e","d","_","a","t","\""," ","t","i","m",
      "e","s","t","a","m","p"," ","w","i","t","h","o","u","t"," ","t",
      "i","m","e"," ","z","o","n","e">>

\* '"n" integer'
ColCount ==
    <<"\"","n","\""," ","i","n","t","e","g","e","r">>

\* '"bigint_note" text'
ColBigintNote ==
    <<"\"","b","i","g","i","n","t","_","n","o","t","e","\""," ","t","e",
      "x","t">>

TypeCols == <<ColId, ColFlag, ColContext, ColGeom, ColName, ColCreatedAt, ColCount,
              ColBigintNote>>

\* 'CREATE TABLE "public"."users" ("id" bigint NOT NULL, "name" character varying);'
OneLineUsers ==
    <<"C","R","E","A","T","E"," ","T","A","B","L","E"," ","\"","p","u",
      "b","l","i","c","\"",".","\"","u","s","e","r","s","\""," ","(",
      "\"","i","d","\""," ","b","i","g","i","n","t"," ","N","O","T"," ",
      "N","U","L","L",","," ","\"","n","a","m","e","\""," ","c","h","a",
      "r","a","c","t","e","r"," ","v","a","r","y","i","n","g",")",";">>

\* 'CREATE TABLE "public"."users" (\n"id" bigint'
Unclosed ==
    <<"C","R","E","A","T","E"," ","T","A","B","L","E"," ","\"","p","u",
      "b","l","i","c","\"",".","\"","u","s","e","r","s","\""," ","(",
      "\n","\"","i","d","\""," ","b","i","g","i","n","t">>

\* 'ALTER TABLE ONLY public.stories ADD CONSTRAINT fk_x FOREIGN KEY (community_id) REFERENCES public.communities(id)'
FkStories ==
    <<"A","L","T","E","R"," ","T","A","B","L","E"," ","O","N","L","Y",
      " ","p","u","b","l","i","c",".","s","t","o","r","i","e","s"," ",
      "A","D","D"," ","C","O","N","S","T","R","A","I","N","T"," ","f",
      "k","_","x"," ","F","O","R","E","I","G","N"," ","K","E","Y"," ",
      "(","c","o","m","m","u","n","i","t","y","_","i","d",")"," ","R",
      "E","F","E","R","E","N","C","E","S"," ","p","u","b","l","i","c",
      ".","c","o","m","m","u","n","i","t","i","e","s","(","i","d",")">>

\* 'ALTER TABLE public.places ADD CONSTRAINT fk_c FOREIGN KEY (a, b) REFERENCES public.users(c, d)'
FkComposite ==
    <<"A","L","T","E","R"," ","T","A","B","L","E"," ","p","u","b","l",
      "i","c",".","p","l","a","c","e","s"," ","A","D","D"," ","C","O",
      "N","S","T","R","A","I","N","T"," ","f","k","_","c"," ","F","O",
      "R","E","I","G","N"," ","K","E","Y"," ","(","a",","," ","b",")",
      " ","R","E","F","E","R","E","N","C","E","S"," ","p","u","b","l",
      "i","c",".","u","s","e","r","s","(","c",","," ","d",")">>

\* 'ALTER TABLE ONLY public.users ADD CONSTRAINT pk PRIMARY KEY (id)'
FkPrimaryKey ==
    <<"A","L","T","E","R"," ","T","A","B","L","E"," ","O","N","L","Y",
      " ","p","u","b","l","i","c",".","u","s","e","r","s"," ","A","D",
      "D"," ","C","O","N","S","T","R","A","I","N","T"," ","p","k"," ",
      "P","R","I","M","A","R","Y"," ","K","E","Y"," ","(","i","d",")">>

\* 'ALTER TABLE ONLY public.stories\n    ADD CONSTRAINT fk_y FOREIGN KEY (a) REFERENCES public.users(id)'
FkDumpStyle ==
    <<"A","L","T","E","R"," ","T","A","B","L","E"," ","O","N","L","Y",
      " ","p","u","b","l","i","c",".","s","t","o","r","i","e","s","\n",
      " "," "," "," ","A","D","D"," ","C","O","N","S","T","R","A","I",
      "N","T"," ","f","k","_","y"," ","F","O","R","E","I","G","N"," ",
      "K","E","Y"," ","(","a",")"," ","R","E","F","E","R","E","N","C",
      "E","S"," ","p","u","b","l","i","c",".","u","s","e","r","s","(",
      "i","d",")">>

\* a CREATE TABLE statement as pg_dump writes it around a body
TableStmt(name, body) ==
    <<"C","R","E","A","T","E"," ","T","A","B","L","E"," ","\"","p","u","b","l","i","c",
      "\"",".","\"">> \o name \o <<"\""," ","(">> \o body \o <<")",";">>

\* the lines of a body, one column per line, comma-separated as pg_dump writes them
RECURSIVE BodyOf(_)
BodyOf(cols) ==
    IF cols = <<>> THEN <<NL>>
    ELSE IF Len(cols) = 1 THEN <<NL, " ", " ", " ", " ">> \o Head(cols) \o <<NL>>
    ELSE <<NL, " ", " ", " ", " ">> \o Head(cols) \o <<",">> \o BodyOf(Tail(cols))

SeqsUpTo(S, lo, hi) == UNION {[1..n -> S] : n \in lo..hi}

\* every body of at most MaxBody characters over the characters the column
\* loop treats specially, and one it does not, in a core table
BodyAlphabet == {DQ, ",", "-", " ", NL, "a"}
BodyTexts == {TableStmt(users, b) : b \in SeqsUpTo(BodyAlphabet, 0, MaxBody)}

\* up to MaxTables tables, the k-th with one column, TypeCols[k]
SchemaTexts ==
    {Flatten([k \in 1..Len(ns) |-> TableStmt(ns[k], BodyOf(<<TypeCols[k]>>)) \o <<NL>>]) :
        ns \in SeqsUpTo(TableNames, 0, MaxTables)}

\* one core table of up to MaxCols columns
TypeTexts == {TableStmt(users, BodyOf(cols)) : cols \in SeqsUpTo(Range(TypeCols), 1, MaxCols)}

\* a table with more than ten columns
ManyCols == TableStmt(themes, BodyOf(TypeCols \o <<ColId, ColFlag, ColGeom>>))

\* a core table, then up to MaxFk ALTER TABLE statements
FkPieces == {FkStories, FkComposite, FkPrimaryKey, FkDumpStyle}
FkText(ps) ==
    TableStmt(stories, BodyOf(<<ColId>>))
        \o Flatten([k \in 1..Len(ps) |-> <<NL>> \o ps[k] \o <<";">>])
FkTexts == {FkText(ps) : ps \in SeqsUpTo(FkPieces, 0, MaxFk)}

Texts == BodyTexts \cup SchemaTexts \cup TypeTexts \cup FkTexts
             \cup {OneLineUsers, Unclosed, ManyCols}

\* what schema_analysis.txt holds when an earlier run has left it
OldLines == <<<<"title">>, <<"generated", "date0">>, <<"stale">>>>

(***************************************************************************)
(* The run of the script.                                                   *)
(***************************************************************************)
Init ==
    /\ schema_file \in {NoFile} \cup {File(text) : text \in Texts}
    /\ \/ output_dir = "absent" /\ output_file = NoFile
       \/ output_dir = "dir" /\ output_file \in {NoFile, File(OldLines)}
    /\ pc = "start"
    /\ schema_content = <<>>
    /\ tables = <<>>
    /\ foreign_keys = <<>>
    /\ console = <<>>
    /\ calls = <<>>

Next ==
    \/ NotFound
    \/ ReadSchema
    \/ ParseTables
    \/ PrintCore
    \/ PrintJunction
    \/ PrintMedia
    \/ PrintForeignKeys
    \/ PrintTypes
    \/ PrintPriority
    \/ SaveAnalysis

Spec == Init /\ [][Next]_vars

(***************************************************************************)
(* The two extractors called directly, any number of times up to MaxCalls,  *)
(* on texts in any order.                                                   *)
(***************************************************************************)
ExtractTexts ==
    {<<>>, OneLineUsers, FkStories,
     TableStmt(users, BodyOf(<<ColId, ColName>>)) \o <<NL>> \o FkComposite,
     FkStories \o <<";", NL>> \o FkComposite}

CallParseCreateTable ==
    /\ Len(calls) < MaxCalls
    /\ \E text \in ExtractTexts :
           calls' = Append(calls, [fn |-> "parse_create_table", text |-> text,
                                   result |-> parse_create_table(text)])
    /\ UNCHANGED <<schema_file, output_dir, output_file, pc, schema_content, tables,
                   foreign_keys, console>>

CallParseForeignKeys ==
    /\ Len(calls) < MaxCalls
    /\ \E text \in ExtractTexts :
           calls' = Append(calls, [fn |-> "parse_foreign_keys", text |-> text,
                                   result |-> parse_foreign_keys(text)])
    /\ UNCHANGED <<schema_file, output_dir, output_file, pc, schema_content, tables,
                   foreign_keys, console>>

InitExtract ==
    /\ schema_file = NoFile
    /\ output_dir = "absent"
    /\ output_file = NoFile
    /\ pc = "extract"
    /\ schema_content = <<>>
    /\ tables = <<>>
    /\ foreign_keys = <<>>
    /\ console = <<>>
    /\ calls = <<>>

NextExtract == CallParseCreateTable \/ CallParseForeignKeys

SpecExtract == InitExtract /\ [][NextExtract]_vars

(***************************************************************************)
(* Properties.                                                              *)
(***************************************************************************)
\* the entries of the console with a given tag, in order
Tagged(tag) == SelectSeq(console, LAMBDA e : e[1] = tag)

\* positions of the run at which a section has been printed
AfterParse ==
    {"parsed", "core", "junction", "media", "fks", "types", "priority", "returned", "raised"}
AfterJunction == {"junction", "media", "fks", "types", "priority", "returned", "raised"}
AfterMedia == {"media", "fks", "types", "priority", "returned", "raised"}
Ended == {"returned", "raised"}

FragIdName ==
    <<"i","d"," ","b","i","g","i","n","t"," ","N","O","T"," ","N","U","L","L",","," ",
      "n","a","m","e"," ","c","h","a","r","a","c","t","e","r"," ","v","a","r","y","i","n","g">>
FragId == <<"i","d"," ","b","i","g","i","n","t"," ","N","O","T"," ","N","U","L","L">>
FragName ==
    <<"n","a","m","e"," ","c","h","a","r","a","c","t","e","r"," ","v","a","r","y","i","n","g">>

\* the same two columns as OneLineUsers, each on a line of its own
TwoLineUsers == TableStmt(users, BodyOf(<<ColId, ColName>>))

\* C1, as claimed: parse_create_table of the one-line text OneLineUsers returns
\* the one key users with exactly the two fragments "id bigint NOT NULL" and
\* "name character varying", in that order.
C1_OneLineTwoFragments ==
    (pc \in AfterParse /\ schema_content = OneLineUsers)
        => tables = <<[name |-> users, columns |-> <<FragId, FragName>>]>>

\* C1, amended: parse_create_table of the one-line text OneLineUsers returns
\* the one key users with exactly one fragment, the whole text between the
\* parentheses with its quotes stripped ("id bigint NOT NULL, name character
\* varying"); the two fragments come out, in order, when each column stands on
\* a line of its own.
C1_OneLineOneFragment ==
    /\ (pc \in AfterParse /\ schema_content = OneLineUsers)
           => tables = <<[name |-> users, columns |-> <<FragIdName>>]>>
    /\ (pc \in AfterParse /\ schema_content = TwoLineUsers)
           => tables = <<[name |-> users, columns |-> <<FragId, FragName>>]>>

C1_Witness ==
    /\ pc = "parsed"
    /\ schema_content = OneLineUsers
    /\ Len(tables) = 1
    /\ Len(tables[1].columns) = 1

\* C2, as claimed: whenever the schema file exists, the run ends by returning
\* after the summary file has been written; it never ends by raising.
C2_ExistingInputNeverRaises ==
    (schema_file.exists /\ pc \in Ended)
        => /\ pc = "returned"
           /\ output_file.exists
           /\ output_file # File(OldLines)
           /\ console[Len(console)] = <<"complete">>

\* C3: when dump-analysis/schema.sql does not exist, the run returns without
\* raising, having printed the not-found message and nothing else, and leaves
\* the directory migration-analysis and the file schema_analysis.txt as they were.
C3_MissingInputLeavesNoTrace ==
    [][(pc = "start" /\ ~schema_file.exists)
           => /\ pc' = "returned"
              /\ console' = <<<<"not_found">>>>
              /\ output_dir' = output_dir
              /\ output_file' = output_file
              /\ schema_file' = schema_file]_vars

C3_Witness ==
    /\ ~schema_file.exists
    /\ pc = "returned"
    /\ console = <<<<"not_found">>>>
    /\ output_dir = "absent"
    /\ ~output_file.exists

\* the suggestions printed so far: <<"field", col, col_name, nullable, ts_type>>
Suggestions == Range(Tagged("field"))

RecognizedTokens == {Bigint, Integer, CharacterVarying, Text, Timestamp, Boolean}

\* C4, as claimed: of the suggestions emitted, a fragment containing bigint gets
\* number, one containing boolean gets boolean whatever else it contains, and
\* one containing no recognized type token gets unknown.
C4_BooleanAlwaysBoolean ==
    \A e \in Suggestions :
        /\ Contains(e[2], Bigint) => e[5] = "number"
        /\ Contains(e[2], Boolean) => e[5] = "boolean"
        /\ (\A tok \in RecognizedTokens : ~Contains(e[2], tok)) => e[5] = "unknown"

\* C4, amended: of the suggestions emitted, a fragment containing bigint gets
\* number whatever else it contains; one containing boolean gets boolean
\* provided it contains none of bigint, integer, character varying, text and
\* timestamp, which are tested first; one containing no recognized type token
\* gets unknown.
C4_BooleanUnlessEarlierToken ==
    \A e \in Suggestions :
        /\ Contains(e[2], Bigint) => e[5] = "number"
        /\ (/\ Contains(e[2], Boolean)
            /\ \A tok \in RecognizedTokens \ {Boolean} : ~Contains(e[2], tok))
               => e[5] = "boolean"
        /\ (\A tok \in RecognizedTokens : ~Contains(e[2], tok)) => e[5] = "unknown"

C4_Witness ==
    /\ pc = "types"
    /\ \E e \in Suggestions : Contains(e[2], Bigint) /\ e[5] = "number"
    /\ \E e \in Suggestions : Contains(e[2], Boolean) /\ e[5] = "boolean"
    /\ \E e \in Suggestions : Contains(e[2], Boolean) /\ e[5] = "string"
    /\ \E e \in Suggestions : e[5] = "unknown"

\* the edges of the two statements of the claimed form among FkPieces
EdgeStories ==
    [source_table |-> <<"s","t","o","r","i","e","s">>,
     source_column |-> <<"c","o","m","m","u","n","i","t","y","_","i","d">>,
     target_table |-> <<"c","o","m","m","u","n","i","t","i","e","s">>,
     target_column |-> <<"i","d">>,
     constraint_name |-> <<"f","k","_","x">>]
EdgeComposite ==
    [source_table |-> <<"p","l","a","c","e","s">>,
     source_column |-> <<"a",","," ","b">>,
     target_table |-> <<"u","s","e","r","s">>,
     target_column |-> <<"c",","," ","d">>,
     constraint_name |-> <<"f","k","_","c">>]

\* the edges a text of FkTexts must yield: one for each of its pieces that is a
\* statement of the claimed form, in order. FkPrimaryKey is no foreign key, and
\* FkDumpStyle breaks the line before ADD CONSTRAINT, so neither has the form.
ExpectedEdges(ps) ==
    Flatten([k \in 1..Len(ps) |->
                IF ps[k] = FkStories THEN <<EdgeStories>>
                ELSE IF ps[k] = FkComposite THEN <<EdgeComposite>>
                ELSE <<>>])

\* C5: parse_foreign_keys returns one edge for each ALTER TABLE [ONLY ]public.t
\* ADD CONSTRAINT c FOREIGN KEY (cols) REFERENCES public.t2(cols2) statement of
\* the text, in order of occurrence, and nothing else; the statement FkStories
\* alone yields the one edge stories.community_id -> communities.id named fk_x;
\* the columns of a composite key stay one unsplit string.
C5_OneEdgePerStatement ==
    pc = "fks" =>
        /\ \A ps \in SeqsUpTo(FkPieces, 0, MaxFk) :
               schema_content = FkText(ps) => foreign_keys = ExpectedEdges(ps)
        /\ schema_content = FkText(<<FkStories>>) => foreign_keys = <<EdgeStories>>
        /\ ~Contains(schema_content, <<"F","O","R","E","I","G","N"," ","K","E","Y">>)
               => foreign_keys = <<>>
        /\ Tagged("fk") = [k \in 1..Len(foreign_keys) |->
                              <<"fk", foreign_keys[k].source_table,
                                foreign_keys[k].source_column,
                                foreign_keys[k].target_table,
                                foreign_keys[k].target_column>>]

C5_Witness ==
    /\ pc = "fks"
    /\ foreign_keys = <<EdgeComposite, EdgeStories>>

\* the seven core names and the media prefix, as the specification gives them
SevenCoreNames ==
    {<<"c","o","m","m","u","n","i","t","i","e","s">>, <<"u","s","e","r","s">>,
     <<"s","t","o","r","i","e","s">>, <<"p","l","a","c","e","s">>,
     <<"s","p","e","a","k","e","r","s">>, <<"t","h","e","m","e","s">>,
     <<"c","u","r","r","i","c","u","l","u","m","s">>}

ListedJunction == {e[2] : e \in Range(Tagged("junction"))}
ListedMedia == {e[2] : e \in Range(Tagged("media"))}
ParsedNames == Range(Keys(tables))

\* C6: a parsed table is listed as a junction table exactly when its name
\* contains an underscore and one of the seven core names, and as a media table
\* exactly when its name starts with active_storage; so story_speakers is
\* listed as junction and active_storage_blobs as media.
C6_Classification ==
    pc \in AfterMedia =>
        /\ ListedJunction =
               {t \in ParsedNames :
                    /\ \E i \in 1..Len(t) : t[i] = "_"
                    /\ \E core \in SevenCoreNames : Contains(t, core)}
        /\ ListedMedia =
               {t \in ParsedNames :
                    Len(t) >= 14 /\ SubSeq(t, 1, 14) = <<"a","c","t","i","v","e","_",
                                                          "s","t","o","r","a","g","e">>}
        /\ ListedJunction \cap TableNames = ParsedNames \cap {story_speakers, users_settings}
        /\ ListedMedia \cap TableNames = ParsedNames \cap {active_storage_blobs}

C6_Witness ==
    /\ pc = "media"
    /\ story_speakers \in ListedJunction
    /\ active_storage_blobs \in ListedMedia

\* what schema_analysis.txt must hold after a run over text, for some date
SummaryOf(text) ==
    {File(FileLines(parse_create_table(text), parse_foreign_keys(text), date)) :
        date \in Dates}

\* C7, as claimed: whenever the input file is present, the run leaves the
\* directory migration-analysis in place and schema_analysis.txt holding, in
\* place of what it held, every column fragment of every core table present,
\* in allowlist order, then every foreign-key edge in extraction order; and
\* directory and file are touched only once every console section is printed.
C7_SuccessPathWritesSummary ==
    /\ (schema_file.exists /\ pc \in Ended)
           => /\ output_dir = "dir"
              /\ output_file \in SummaryOf(schema_file.content)
    /\ (schema_file.exists /\ pc \notin Ended)
           => output_file \in {NoFile, File(OldLines)}

\* C7 on the runs that the IndexError of line 136 does not end: a run that
\* returns with the input file present has written the summary.
C7_ReturnedRunsWriteSummary ==
    (schema_file.exists /\ pc = "returned")
        => /\ output_dir = "dir"
           /\ output_file \in SummaryOf(schema_file.content)

\* C7, the order: only the step that returns changes the directory or the file.
C7_WrittenLast ==
    [][pc' # "returned" => (output_dir' = output_dir /\ output_file' = output_file)]_vars

BodyOfText(text) == SubSeq(text, Len(TableStmt(users, <<>>)) - 1, Len(text) - 2)

\* the lines of a body that are neither blank (holding more than white space
\* and trailing commas) nor comments
KeptLines(body) ==
    SelectSeq(Split(body, NL),
              LAMBDA l : /\ RStripComma(Strip(l)) # <<>>
                         /\ ~StartsWith(Strip(l), <<"-","-">>))

\* C9, as claimed: every fragment parse_create_table returns is non-empty, does
\* not end with a comma, does not start with "--" and holds no double quote, and
\* a table has one fragment for each line of its body that is neither blank nor
\* a comment.
C9_FragmentsAreClean ==
    pc \in AfterParse =>
        /\ \A k \in 1..Len(tables) : \A c \in Range(tables[k].columns) :
               /\ c # <<>>
               /\ c[Len(c)] # ","
               /\ ~StartsWith(c, <<"-","-">>)
               /\ \A i \in 1..Len(c) : c[i] # DQ
        /\ schema_content \in BodyTexts
               => Len(tables[1].columns) = Len(KeptLines(BodyOfText(schema_content)))

\* C10, as claimed: a parsed table named user_settings is listed as a junction table.
C10_UserSettingsIsJunction ==
    (pc \in AfterJunction /\ user_settings \in ParsedNames)
        => user_settings \in ListedJunction

\* C10, amended: a parsed table named user_settings is not listed as a junction
\* table, for its name holds user and not the core name users; a name that does
\* hold a core name by coincidence, such as users_settings, is listed.
C10_UserSettingsIsNotJunction ==
    pc \in AfterJunction =>
        /\ user_settings \notin ListedJunction
        /\ users_settings \in ParsedNames => users_settings \in ListedJunction

C10_Witness ==
    /\ pc = "junction"
    /\ user_settings \in ParsedNames
    /\ users_settings \in ListedJunction

=============================================================================
